---- MODULE Spec2Model ----
\* A model of the edge/fsm state machine (src/fsm.go): the registry of states,
\* the validator, the per-state lifecycle contexts, the transitions channel of
\* capacity 1, the worker goroutine launched by Initialize and the goroutines
\* spawned for parallel states.
EXTENDS Integers, Sequences, FiniteSets, TLC

VARIABLES
    States,        \* s.States: the registry, in registration order
    CurrentState,  \* s.CurrentState: a state reference (Nil, k > 0, or -k)
    stctx,         \* State.ctx / State.cancel of the registered states (0 = nil)
    starts,        \* State.ctx of the synthetic start states made by Start
    transitions,   \* s.transitions: the buffered channel
    initialized,   \* s.initialized
    rootctx,       \* s.ctx: "nil", "live" or "cancelled"
    beforeFn,      \* s.beforeFn is set
    onStart,       \* s.onStart is set
    cancelled,     \* the contexts whose own cancel function has been called
    nctx,          \* number of contexts created by context.WithCancel so far
    trs,           \* every Transition record built so far, by id, with the
                   \* context its To state was given (0 when none)
    sent,          \* ids of the records put on the channel, in order
    gos,           \* goroutines started by `go tr.do()`: id -> position
    workers,       \* worker goroutines launched by Initialize
    log,           \* calls of beforeFn, onEnterFunc and onStart, in order
    crashed,       \* the process died of a panic
    callers,       \* the goroutines that call into the machine
    pc,            \* each caller's position
    fr,            \* each caller's frame: arguments, locals, result
    ncalls         \* number of calls of Transition, Start and Initialize so far

vars ==
    <<States, CurrentState, stctx, starts, transitions, initialized, rootctx,
      beforeFn, onStart, cancelled, nctx, trs, sent, gos, workers, log,
      crashed, callers, pc, fr, ncalls>>

----------------------------------------------------------------------------
\* Bounds of the exploration.

\* Calls of Transition, Start and Initialize made in one behaviour by a
\* single caller.
MaxCalls ==
    4

\* The same, by two callers together.
MaxCallsConc ==
    3

\* The same, by one caller and the entry actions together.
MaxCallsEntry ==
    4

\* The capacity of the transitions channel.
ChanCap ==
    1

Nil ==
    0

OneCaller ==
    {"c1"}

TwoCallers ==
    {"c1", "c2"}

\* The frame of the Transition calls that entry actions make on the worker.
EntryCaller ==
    "e1"

\* A goroutine calling into the machine and the entry actions run by the
\* worker, which call into it too.
CallerAndEntry ==
    {"c1", EntryCaller}

AllCallers ==
    {"c1", "c2", EntryCaller}

\* A caller launches at most one worker: once it has written s.initialized it
\* reads it true.
WorkerIds ==
    1..Cardinality(TwoCallers)

\* Every call builds at most one Transition record.
TrIds ==
    1..MaxCalls

\* The names a caller asks for. "X" is never registered; "" is the Destination
\* of a State built without To, which is what Start builds.
ReqNames ==
    {"A", "B", "C", "X", ""}

----------------------------------------------------------------------------
\* The registry. A state is what the NewState().From().To()... chain leaves.

St(dest, src, par, any, fstart, enter) ==
    [Destination |-> dest, Source |-> src, parallel |-> par, fromAny |-> any,
     fromStart |-> fstart, onEnterFunc |-> enter]

\* The README's shape: a From("*") state, a chain, a parallel state.
RegReadme ==
    << St("A", <<"*">>, FALSE, FALSE, FALSE, TRUE),
       St("B", <<"A">>, FALSE, FALSE, FALSE, TRUE),
       St("C", <<"B", "A">>, TRUE, FALSE, FALSE, TRUE) >>

\* A cycle of sequential states, one reachable from the start state, and a
\* parallel FromAny state.
RegFlags ==
    << St("A", <<"B", "C">>, FALSE, FALSE, TRUE, TRUE),
       St("B", <<"A", "C">>, FALSE, FALSE, FALSE, TRUE),
       St("C", <<>>, TRUE, TRUE, FALSE, TRUE) >>

\* Two states registered under one name; a state without entry action.
RegDup ==
    << St("A", <<"B">>, FALSE, FALSE, FALSE, TRUE),
       St("B", <<"A">>, TRUE, FALSE, FALSE, TRUE),
       St("B", <<>>, FALSE, FALSE, FALSE, TRUE),
       St("C", <<"A", "B">>, FALSE, FALSE, TRUE, FALSE) >>

\* The machines explored: a registry, whether BeforeTransition was called and
\* whether OnStart was called.
Machines ==
    { [reg |-> RegReadme, beforeFn |-> TRUE, onStart |-> TRUE],
      [reg |-> RegFlags, beforeFn |-> FALSE, onStart |-> TRUE],
      [reg |-> RegDup, beforeFn |-> TRUE, onStart |-> FALSE] }

----------------------------------------------------------------------------
\* State references and contexts.

IsStartRef(r) ==
    r < 0

\* State.Destination of a reference; a start state has the zero value.
Dest(r) ==
    IF r > 0 THEN States[r].Destination ELSE ""

\* State.ctx of a reference (0 is nil).
CtxOf(r) ==
    IF r > 0 THEN stctx[r] ELSE starts[-r]

\* ctx.Err() != nil for a context derived from s.ctx: its own cancel was called
\* or the parent is cancelled.
Cancelled(c) ==
    c \in cancelled \/ rootctx = "cancelled"

\* s.ctx.Err() != nil
RootErr ==
    rootctx = "cancelled"

----------------------------------------------------------------------------
\* Errors. NoErr is the nil error.

NoErr ==
    <<>>

ErrInvalidState(name) ==
    <<"Invalid state: ", name>>

ErrInvalidStateChange(from, to) ==
    <<"Invalid state change: ", from, " > ", to>>

ErrMissingOnStart ==
    <<"Finite State Machine is missing 'OnStart' method">>

----------------------------------------------------------------------------
\* The validator.

RECURSIVE FindFrom(_, _)
\* The loop of Find, from index i on: the first state named st, or Nil.
FindFrom(i, st) ==
    IF i > Len(States) THEN Nil
    ELSE IF States[i].Destination = st THEN i
    ELSE FindFrom(i + 1, st)

\* A Find that falls back on the first registered state.
FindOrFirst(st) ==
    LET r == FindFrom(1, st)
    IN  IF r = Nil /\ Len(States) > 0
        THEN [state |-> 1, err |-> NoErr]
        ELSE [state |-> r, err |-> IF r = Nil THEN ErrInvalidState(st) ELSE NoErr]

Find(st) ==
    LET r == FindFrom(1, st)
    IN  [state |-> r, err |-> IF r = Nil THEN ErrInvalidState(st) ELSE NoErr]

Exists ==
    CurrentState # Nil

\* A Match with the Exists test inverted.
MatchInverted(name) ==
    IF Exists THEN FALSE ELSE Dest(CurrentState) = name

\* Match, for the one name Transition passes.
Match(name) ==
    IF ~Exists THEN FALSE ELSE Dest(CurrentState) = name

\* A source loop with the comparison inverted (source != Destination).
SourceMatchesInverted(st) ==
    \E i \in 1..Len(States[st].Source) :
        States[st].Source[i] # Dest(CurrentState)

\* Whether some element of st.Source equals the current Destination.
SourceMatches(st) ==
    \E i \in 1..Len(States[st].Source) :
        States[st].Source[i] = Dest(CurrentState)

\* A validator whose FromStart rule forgets to test that the current state is
\* the start state.
IsValidStateChangeNoStartTest(name) ==
    LET f == Find(name)
        st == f.state
    IN  IF f.err # NoErr THEN f
        ELSE IF States[st].fromAny THEN [state |-> st, err |-> NoErr]
        ELSE IF CurrentState = Nil THEN [state |-> st, err |-> NoErr]
        ELSE IF States[st].fromStart THEN [state |-> st, err |-> NoErr]
        ELSE IF SourceMatches(st) THEN [state |-> st, err |-> NoErr]
        ELSE [state |-> st,
              err |-> ErrInvalidStateChange(Dest(CurrentState),
                                            States[st].Destination)]

IsValidStateChange(name) ==
    LET f == Find(name)
        st == f.state
    IN  IF f.err # NoErr THEN f
        ELSE IF States[st].fromAny THEN [state |-> st, err |-> NoErr]
        ELSE IF CurrentState = Nil THEN [state |-> st, err |-> NoErr]
        ELSE IF IsStartRef(CurrentState) /\ States[st].fromStart
             THEN [state |-> st, err |-> NoErr]
        ELSE IF SourceMatches(st) THEN [state |-> st, err |-> NoErr]
        ELSE [state |-> st,
              err |-> ErrInvalidStateChange(Dest(CurrentState),
                                            States[st].Destination)]

----------------------------------------------------------------------------
\* Frames of the callers.

\* What a caller sees of the machine when it makes a call; kept to compare
\* with what it sees when the call returns.
Snapshot ==
    [cur |-> CurrentState, ctx |-> stctx, starts |-> starts,
     cancelled |-> cancelled, ntrs |-> Len(trs), nsent |-> Len(sent),
     gos |-> DOMAIN gos, root |-> rootctx]

IdleFrame ==
    [op |-> "none", to |-> "", state |-> Nil, tr |-> 0, err |-> NoErr,
     cont |-> "ret", pre |-> Snapshot, retroot |-> rootctx]

\* The calls explored, by the number of callers.
CallBudget ==
    IF callers = OneCaller THEN MaxCalls
    ELSE IF callers = TwoCallers THEN MaxCallsConc
    ELSE MaxCallsEntry

CanCall(c) ==
    /\ c \in callers
    /\ pc[c] \in {"idle", "ret"}

\* The call returns err; the frame notes what s.ctx was then.
Ret(c, err) ==
    /\ pc' = [pc EXCEPT ![c] = "ret"]
    /\ fr' = [fr EXCEPT ![c].err = err, ![c].retroot = rootctx]

----------------------------------------------------------------------------
\* Transition(to), one step per group of statements a concurrent goroutine can
\* get in between.

\* A Transition that keeps the context the inbound state already holds.
NewStateCtxKeep(st) ==
    IF rootctx # "nil" /\ stctx[st] = 0
    THEN [stctx EXCEPT ![st] = nctx + 1]
    ELSE stctx

\* A Transition that derives a context for the inbound state without the test
\* of s.ctx.
NewStateCtxAlways(st) ==
    [stctx EXCEPT ![st] = nctx + 1]

\* ctx.WithCancel(s.ctx) for the inbound state st, when the machine has a
\* context (lines 251-254): the contexts of the registered states after it.
NewStateCtx(st) ==
    IF rootctx # "nil" THEN [stctx EXCEPT ![st] = nctx + 1] ELSE stctx

\* A Transition that forgets to cancel the current state's context.
CancelCurrentNever ==
    cancelled

\* A Transition that cancels the context of a registered current state only,
\* never that of a start state.
CancelCurrentRegisteredOnly ==
    IF CurrentState > 0 /\ CtxOf(CurrentState) # 0
    THEN cancelled \cup {CtxOf(CurrentState)}
    ELSE cancelled

\* The contexts cancelled once the current state's cancel function has been
\* called, when it has one (lines 262-265).
CancelCurrent ==
    IF CurrentState # Nil /\ CtxOf(CurrentState) # 0
    THEN cancelled \cup {CtxOf(CurrentState)}
    ELSE cancelled

\* Lines 238-265: the self-transition test, the validator, the inbound state's
\* new context, the Transition record and the cancellation of the current
\* state's context.
TransitionCall(c, to) ==
    /\ ~crashed
    /\ CanCall(c)
    /\ ncalls < CallBudget
    /\ ncalls' = ncalls + 1
    /\ LET v == IsValidStateChange(to)
           f == [op |-> "Transition", to |-> to, state |-> Nil, tr |-> 0,
                 err |-> NoErr, cont |-> "ret", pre |-> Snapshot, retroot |-> rootctx]
       IN  IF Match(to)
           THEN /\ pc' = [pc EXCEPT ![c] = "ret"]
                /\ fr' = [fr EXCEPT ![c] = f]
                /\ UNCHANGED <<stctx, nctx, trs, cancelled>>
           ELSE IF v.err # NoErr
           THEN /\ pc' = [pc EXCEPT ![c] = "ret"]
                /\ fr' = [fr EXCEPT ![c] = [f EXCEPT !.err = v.err]]
                /\ UNCHANGED <<stctx, nctx, trs, cancelled>>
           ELSE /\ stctx' = NewStateCtx(v.state)
                /\ nctx' = IF rootctx # "nil" THEN nctx + 1 ELSE nctx
                /\ trs' = Append(trs, [From |-> CurrentState, To |-> v.state,
                                        ctx |-> NewStateCtx(v.state)[v.state]])
                /\ cancelled' = CancelCurrent
                /\ pc' = [pc EXCEPT ![c] = "t_dispatch"]
                /\ fr' = [fr EXCEPT ![c] = [f EXCEPT !.state = v.state,
                                                     !.tr = Len(trs) + 1]]
    /\ UNCHANGED <<States, CurrentState, starts, transitions, initialized,
                   rootctx, beforeFn, onStart, sent, gos, workers, log,
                   crashed, callers>>

\* state.parallel, as line 267 reads it.
IsParallel(st) ==
    States[st].parallel

\* A Transition that, with the machine's context cancelled, drops the record
\* and goes on to advance CurrentState.
TransitionDispatchAdvance(c) ==
    /\ ~crashed
    /\ c \in callers
    /\ pc[c] = "t_dispatch"
    /\ IF IsParallel(fr[c].state)
       THEN /\ gos' = (fr[c].tr :> "ready") @@ gos
            /\ pc' = [pc EXCEPT ![c] = "t_setcur"]
       ELSE IF rootctx # "nil" /\ RootErr
       THEN /\ pc' = [pc EXCEPT ![c] = "t_setcur"]
            /\ UNCHANGED gos
       ELSE /\ pc' = [pc EXCEPT ![c] = "t_send"]
            /\ UNCHANGED gos
    /\ UNCHANGED <<States, CurrentState, stctx, starts, transitions,
                   initialized, rootctx, beforeFn, onStart, cancelled, nctx,
                   trs, sent, workers, log, crashed, callers, fr, ncalls>>

\* Lines 267-272: `go tr.do()` for a parallel state; for the others the test
\* of the machine's context before the send.
TransitionDispatch(c) ==
    /\ ~crashed
    /\ c \in callers
    /\ pc[c] = "t_dispatch"
    /\ IF IsParallel(fr[c].state)
       THEN /\ gos' = (fr[c].tr :> "ready") @@ gos
            /\ pc' = [pc EXCEPT ![c] = "t_setcur"]
            /\ UNCHANGED fr
       ELSE IF rootctx # "nil" /\ RootErr
       THEN /\ Ret(c, NoErr)
            /\ UNCHANGED gos
       ELSE /\ pc' = [pc EXCEPT ![c] = "t_send"]
            /\ UNCHANGED <<gos, fr>>
    /\ UNCHANGED <<States, CurrentState, stctx, starts, transitions,
                   initialized, rootctx, beforeFn, onStart, cancelled, nctx,
                   trs, sent, workers, log, crashed, callers, ncalls>>

\* Line 273: the send, which waits while the channel is full.
TransitionSend(c) ==
    /\ ~crashed
    /\ c \in callers
    /\ pc[c] = "t_send"
    /\ Len(transitions) < ChanCap
    /\ transitions' = Append(transitions, fr[c].tr)
    /\ sent' = Append(sent, fr[c].tr)
    /\ pc' = [pc EXCEPT ![c] = "t_setcur"]
    /\ UNCHANGED <<States, CurrentState, stctx, starts, initialized, rootctx,
                   beforeFn, onStart, cancelled, nctx, trs, gos, workers, log,
                   crashed, callers, fr, ncalls>>

\* Lines 275-276.
TransitionSetCurrent(c) ==
    /\ ~crashed
    /\ c \in callers
    /\ pc[c] = "t_setcur"
    /\ CurrentState' = fr[c].state
    /\ Ret(c, NoErr)
    /\ UNCHANGED <<States, stctx, starts, transitions, initialized, rootctx,
                   beforeFn, onStart, cancelled, nctx, trs, sent, gos, workers,
                   log, crashed, callers, ncalls>>

----------------------------------------------------------------------------
\* Initialize and Start.

\* A direct call of Initialize.
InitializeCall(c) ==
    /\ ~crashed
    /\ CanCall(c)
    /\ ncalls < CallBudget
    /\ ncalls' = ncalls + 1
    /\ pc' = [pc EXCEPT ![c] = "i_check"]
    /\ fr' = [fr EXCEPT ![c] = [op |-> "Initialize", to |-> "", state |-> Nil,
                                tr |-> 0, err |-> NoErr, cont |-> "ret",
                                pre |-> Snapshot, retroot |-> rootctx]]
    /\ UNCHANGED <<States, CurrentState, stctx, starts, transitions,
                   initialized, rootctx, beforeFn, onStart, cancelled, nctx,
                   trs, sent, gos, workers, log, crashed, callers>>

\* An Initialize without the guard on s.initialized.
InitializeCheckAlways(c) ==
    /\ ~crashed
    /\ c \in callers
    /\ pc[c] = "i_check"
    /\ pc' = [pc EXCEPT ![c] = "i_launch"]
    /\ UNCHANGED <<States, CurrentState, stctx, starts, transitions,
                   initialized, rootctx, beforeFn, onStart, cancelled, nctx,
                   trs, sent, gos, workers, log, crashed, callers, fr, ncalls>>

\* Lines 211-213: the read of s.initialized.
InitializeCheck(c) ==
    /\ ~crashed
    /\ c \in callers
    /\ pc[c] = "i_check"
    /\ pc' = [pc EXCEPT ![c] = IF initialized THEN fr[c].cont ELSE "i_launch"]
    /\ UNCHANGED <<States, CurrentState, stctx, starts, transitions,
                   initialized, rootctx, beforeFn, onStart, cancelled, nctx,
                   trs, sent, gos, workers, log, crashed, callers, fr, ncalls>>

\* Lines 215-234: the write of s.initialized and the launch of the worker.
InitializeLaunch(c) ==
    /\ ~crashed
    /\ c \in callers
    /\ pc[c] = "i_launch"
    /\ initialized' = TRUE
    /\ workers' = Append(workers, [pc |-> "select", t |-> 0])
    /\ pc' = [pc EXCEPT ![c] = fr[c].cont]
    /\ UNCHANGED <<States, CurrentState, stctx, starts, transitions, rootctx,
                   beforeFn, onStart, cancelled, nctx, trs, sent, gos, log,
                   crashed, callers, fr, ncalls>>

\* Lines 150-154: Start calls Initialize when s.initialized reads false.
StartCall(c) ==
    /\ ~crashed
    /\ CanCall(c)
    /\ ncalls < CallBudget
    /\ ncalls' = ncalls + 1
    /\ pc' = [pc EXCEPT ![c] = IF initialized THEN "s_hook" ELSE "i_check"]
    /\ fr' = [fr EXCEPT ![c] = [op |-> "Start", to |-> "", state |-> Nil,
                                tr |-> 0, err |-> NoErr, cont |-> "s_hook",
                                pre |-> Snapshot, retroot |-> rootctx]]
    /\ UNCHANGED <<States, CurrentState, stctx, starts, transitions,
                   initialized, rootctx, beforeFn, onStart, cancelled, nctx,
                   trs, sent, gos, workers, log, crashed, callers>>

\* Lines 156-166. context.WithCancel panics on a nil parent.
StartHook(c) ==
    /\ ~crashed
    /\ c \in callers
    /\ pc[c] = "s_hook"
    /\ IF ~onStart
       THEN /\ Ret(c, ErrMissingOnStart)
            /\ UNCHANGED <<CurrentState, starts, nctx, log, crashed>>
       ELSE IF rootctx = "nil"
       THEN /\ crashed' = TRUE
            /\ UNCHANGED <<CurrentState, starts, nctx, log, pc, fr>>
       ELSE /\ nctx' = nctx + 1
            /\ starts' = Append(starts, nctx + 1)
            /\ CurrentState' = -(Len(starts) + 1)
            /\ log' = Append(log, <<"onStart", -(Len(starts) + 1), c>>)
            /\ Ret(c, NoErr)
            /\ UNCHANGED crashed
    /\ UNCHANGED <<States, stctx, transitions, initialized, rootctx, beforeFn,
                   onStart, cancelled, trs, sent, gos, workers, callers,
                   ncalls>>

----------------------------------------------------------------------------
\* The worker goroutine of Initialize (lines 217-234).

WorkerAt(w, where) ==
    /\ w \in 1..Len(workers)
    /\ workers[w].pc = where

\* Line 220 on a machine without context: s.ctx is a nil interface and the
\* call of Done() is a nil dereference, which ends the process.
WorkerPanic(w) ==
    /\ ~crashed
    /\ WorkerAt(w, "select")
    /\ rootctx = "nil"
    /\ crashed' = TRUE
    /\ UNCHANGED <<States, CurrentState, stctx, starts, transitions,
                   initialized, rootctx, beforeFn, onStart, cancelled, nctx,
                   trs, sent, gos, workers, log, callers, pc, fr, ncalls>>

\* Lines 220-221: the Done case of the select.
WorkerDone(w) ==
    /\ ~crashed
    /\ WorkerAt(w, "select")
    /\ rootctx = "cancelled"
    /\ workers' = [workers EXCEPT ![w].pc = "exited"]
    /\ UNCHANGED <<States, CurrentState, stctx, starts, transitions,
                   initialized, rootctx, beforeFn, onStart, cancelled, nctx,
                   trs, sent, gos, log, crashed, callers, pc, fr, ncalls>>

\* Line 222: the receive case of the select.
WorkerRecv(w) ==
    /\ ~crashed
    /\ WorkerAt(w, "select")
    /\ rootctx # "nil"
    /\ transitions # <<>>
    /\ workers' = [workers EXCEPT ![w] = [pc |-> "got", t |-> Head(transitions)]]
    /\ transitions' = Tail(transitions)
    /\ UNCHANGED <<States, CurrentState, stctx, starts, initialized, rootctx,
                   beforeFn, onStart, cancelled, nctx, trs, sent, gos, log,
                   crashed, callers, pc, fr, ncalls>>

\* A worker that calls beforeFn after t.do() instead of before it.
WorkerDoHookAfter(w) ==
    /\ ~crashed
    /\ WorkerAt(w, "got")
    /\ LET t == workers[w].t
           me == <<"worker", w>>
           hook == IF beforeFn THEN << <<"before", t, me>> >> ELSE <<>>
       IN  IF RootErr
           THEN /\ workers' = [workers EXCEPT ![w].pc = "exited"]
                /\ UNCHANGED log
           ELSE IF States[trs[t].To].onEnterFunc
           THEN /\ workers' = [workers EXCEPT ![w].pc = "doing"]
                /\ log' = log \o << <<"enter", t, me>> >> \o hook
           ELSE /\ workers' = [workers EXCEPT ![w] = [pc |-> "select", t |-> 0]]
                /\ log' = log \o hook
    /\ UNCHANGED <<States, CurrentState, stctx, starts, transitions,
                   initialized, rootctx, beforeFn, onStart, cancelled, nctx,
                   trs, sent, gos, crashed, callers, pc, fr, ncalls>>

\* Lines 223-231 and 107-109: drop the record when the machine's context is
\* cancelled; else call beforeFn when it is set, then t.do(), which calls the
\* entry action when there is one.
WorkerDo(w) ==
    /\ ~crashed
    /\ WorkerAt(w, "got")
    /\ LET t == workers[w].t
           me == <<"worker", w>>
           hook == IF beforeFn THEN << <<"before", t, me>> >> ELSE <<>>
       IN  IF RootErr
           THEN /\ workers' = [workers EXCEPT ![w].pc = "exited"]
                /\ UNCHANGED log
           ELSE IF States[trs[t].To].onEnterFunc
           THEN /\ workers' = [workers EXCEPT ![w].pc = "doing"]
                /\ log' = log \o hook \o << <<"enter", t, me>> >>
           ELSE /\ workers' = [workers EXCEPT ![w] = [pc |-> "select", t |-> 0]]
                /\ log' = log \o hook
    /\ UNCHANGED <<States, CurrentState, stctx, starts, transitions,
                   initialized, rootctx, beforeFn, onStart, cancelled, nctx,
                   trs, sent, gos, crashed, callers, pc, fr, ncalls>>

\* The entry action returns and the loop goes round.
WorkerDoReturn(w) ==
    /\ ~crashed
    /\ WorkerAt(w, "doing")
    /\ workers' = [workers EXCEPT ![w] = [pc |-> "select", t |-> 0]]
    /\ log' = Append(log, <<"exit", workers[w].t, <<"worker", w>>>>)
    /\ UNCHANGED <<States, CurrentState, stctx, starts, transitions,
                   initialized, rootctx, beforeFn, onStart, cancelled, nctx,
                   trs, sent, gos, crashed, callers, pc, fr, ncalls>>

----------------------------------------------------------------------------
\* The goroutine of `go tr.do()` (line 268, lines 107-111).

GoDo(t) ==
    /\ ~crashed
    /\ t \in DOMAIN gos
    /\ gos[t] = "ready"
    /\ gos' = [gos EXCEPT ![t] = "done"]
    /\ log' = IF States[trs[t].To].onEnterFunc
              THEN log \o << <<"enter", t, <<"go", t>>>>,
                             <<"exit", t, <<"go", t>>>> >>
              ELSE log
    /\ UNCHANGED <<States, CurrentState, stctx, starts, transitions,
                   initialized, rootctx, beforeFn, onStart, cancelled, nctx,
                   trs, sent, workers, crashed, callers, pc, fr, ncalls>>

----------------------------------------------------------------------------
\* The owner of the context given to WithContext cancels it.
CancelRoot ==
    /\ ~crashed
    /\ rootctx = "live"
    /\ rootctx' = "cancelled"
    /\ UNCHANGED <<States, CurrentState, stctx, starts, transitions,
                   initialized, beforeFn, onStart, cancelled, nctx, trs, sent,
                   gos, workers, log, crashed, callers, pc, fr, ncalls>>

----------------------------------------------------------------------------
\* The machine after New(), the registration of the states and the optional
\* WithContext, BeforeTransition and OnStart.
InitMachine ==
    /\ \E m \in Machines :
          /\ States = m.reg
          /\ beforeFn = m.beforeFn
          /\ onStart = m.onStart
    /\ CurrentState = Nil
    /\ stctx = [i \in 1..Len(States) |-> 0]
    /\ starts = <<>>
    /\ transitions = <<>>
    /\ initialized = FALSE
    /\ rootctx \in {"nil", "live"}
    /\ cancelled = {}
    /\ nctx = 0
    /\ trs = <<>>
    /\ sent = <<>>
    /\ gos = <<>>
    /\ workers = <<>>
    /\ log = <<>>
    /\ crashed = FALSE
    /\ pc = [c \in AllCallers |-> "idle"]
    /\ fr = [c \in AllCallers |-> IdleFrame]
    /\ ncalls = 0

\* One goroutine calls into the machine, one call after another.
Init ==
    /\ InitMachine
    /\ callers = OneCaller

\* Two goroutines call into the machine.
InitConc ==
    /\ InitMachine
    /\ callers = TwoCallers

CallerStep(c) ==
    \/ \E to \in ReqNames : TransitionCall(c, to)
    \/ TransitionDispatch(c)
    \/ TransitionSend(c)
    \/ TransitionSetCurrent(c)
    \/ InitializeCall(c)
    \/ InitializeCheck(c)
    \/ InitializeLaunch(c)
    \/ StartCall(c)
    \/ StartHook(c)

WorkerStep(w) ==
    \/ WorkerPanic(w)
    \/ WorkerDone(w)
    \/ WorkerRecv(w)
    \/ WorkerDo(w)
    \/ WorkerDoReturn(w)

\* Every action is disabled once the process has died of a panic.
Next ==
    \/ \E c \in AllCallers : CallerStep(c)
    \/ \E w \in WorkerIds : WorkerStep(w)
    \/ \E t \in TrIds : GoDo(t)
    \/ CancelRoot

Spec ==
    Init /\ [][Next]_vars

SpecConc ==
    InitConc /\ [][Next]_vars

\* The Go scheduler runs every goroutine that can take a step: a caller inside
\* a call, a worker, a goroutine of `go tr.do()`. Nothing obliges a caller to
\* make a further call, nor the owner of the root context to cancel it.
Fairness ==
    /\ \A c \in AllCallers :
          WF_vars(\/ TransitionDispatch(c)
                  \/ TransitionSend(c)
                  \/ TransitionSetCurrent(c)
                  \/ InitializeCheck(c)
                  \/ InitializeLaunch(c)
                  \/ StartHook(c))
    /\ \A w \in WorkerIds : WF_vars(WorkerStep(w))
    /\ \A t \in TrIds : WF_vars(GoDo(t))

FairSpec ==
    Init /\ [][Next]_vars /\ Fairness

----------------------------------------------------------------------------
\* The validator on its own: IsValidStateChange is an exported method, called
\* here on machines of every small registry, before and after a first call of
\* Transition or Start.

\* Length of the registries the validator is tried on.
MaxRegistry ==
    2

ValDests ==
    {"A", "B"}

\* From(), From("A"), From("B", "").
ValSources ==
    {<<>>, <<"A">>, <<"B", "">>}

\* The names asked of the validator; "X" is never registered.
ValNames ==
    {"A", "B", "X", ""}

\* Sequential states with an entry action, with every choice of Destination,
\* Source, FromAny and FromStart.
ValStates ==
    {St(d, src, FALSE, any, fstart, TRUE) :
        d \in ValDests, src \in ValSources, any \in BOOLEAN, fstart \in BOOLEAN}

ValRegistries ==
    UNION {[1..n -> ValStates] : n \in 1..MaxRegistry}

\* A call of IsValidStateChange(name): it reads s.States and s.CurrentState,
\* assigns nothing and returns the state found and the error.
IsValidStateChangeCall(c, name) ==
    /\ ~crashed
    /\ CanCall(c)
    /\ LET v == IsValidStateChange(name)
       IN  fr' = [fr EXCEPT ![c] = [op |-> "IsValidStateChange", to |-> name,
                                    state |-> v.state, tr |-> 0, err |-> v.err,
                                    cont |-> "ret", pre |-> Snapshot,
                                    retroot |-> rootctx]]
    /\ pc' = [pc EXCEPT ![c] = "ret"]
    /\ UNCHANGED <<States, CurrentState, stctx, starts, transitions,
                   initialized, rootctx, beforeFn, onStart, cancelled, nctx,
                   trs, sent, gos, workers, log, crashed, callers, ncalls>>

\* A machine with a registry of ValRegistries, a root context and an OnStart
\* hook, after construction.
InitValidator ==
    /\ States \in ValRegistries
    /\ beforeFn = FALSE
    /\ onStart = TRUE
    /\ CurrentState = Nil
    /\ stctx = [i \in 1..Len(States) |-> 0]
    /\ starts = <<>>
    /\ transitions = <<>>
    /\ initialized = FALSE
    /\ rootctx = "live"
    /\ cancelled = {}
    /\ nctx = 0
    /\ trs = <<>>
    /\ sent = <<>>
    /\ gos = <<>>
    /\ workers = <<>>
    /\ log = <<>>
    /\ crashed = FALSE
    /\ pc = [c \in AllCallers |-> "idle"]
    /\ fr = [c \in AllCallers |-> IdleFrame]
    /\ ncalls = 0
    /\ callers = OneCaller

\* One first call of Transition or Start, which makes a registered state or
\* the start state current, and calls of the validator before and after it.
NextValidator ==
    \E c \in OneCaller :
        \/ \E name \in ValNames : IsValidStateChangeCall(c, name)
        \/ \E to \in ValNames : ncalls = 0 /\ TransitionCall(c, to)
        \/ ncalls = 0 /\ StartCall(c)
        \/ TransitionDispatch(c)
        \/ TransitionSend(c)
        \/ TransitionSetCurrent(c)
        \/ InitializeCheck(c)
        \/ InitializeLaunch(c)
        \/ StartHook(c)

SpecValidator ==
    InitValidator /\ [][NextValidator]_vars

----------------------------------------------------------------------------
\* Entry actions that call Transition. An entry action run by the worker is
\* application code; here it may call Transition, on the worker goroutine,
\* any number of times before it returns, while another goroutine calls into
\* the machine as well. The root context is never cancelled.

\* The worker whose entry actions make the calls: the only one launched when
\* one goroutine calls Initialize.
EntryWorker ==
    1

InitEntry ==
    /\ InitMachine
    /\ rootctx = "live"
    /\ callers = CallerAndEntry

\* The entry action the worker is running calls Transition(to).
EntryTransitionCall(to) ==
    /\ WorkerAt(EntryWorker, "doing")
    /\ TransitionCall(EntryCaller, to)

\* The entry action returns once the call it made has returned.
EntryReturn ==
    /\ pc[EntryCaller] \in {"idle", "ret"}
    /\ WorkerDoReturn(EntryWorker)

\* The steps of the worker goroutine while it is inside an entry action.
EntryStep ==
    \/ \E to \in ReqNames : EntryTransitionCall(to)
    \/ TransitionDispatch(EntryCaller)
    \/ TransitionSend(EntryCaller)
    \/ TransitionSetCurrent(EntryCaller)
    \/ EntryReturn

\* The calls of the other goroutine: Initialize and Transition.
EntryOtherStep ==
    \/ \E to \in ReqNames : TransitionCall("c1", to)
    \/ TransitionDispatch("c1")
    \/ TransitionSend("c1")
    \/ TransitionSetCurrent("c1")
    \/ InitializeCall("c1")
    \/ InitializeCheck("c1")
    \/ InitializeLaunch("c1")

NextEntry ==
    \/ EntryOtherStep
    \/ EntryStep
    \/ WorkerRecv(EntryWorker)
    \/ WorkerDo(EntryWorker)
    \/ \E t \in TrIds : GoDo(t)

SpecEntry ==
    InitEntry /\ [][NextEntry]_vars

\* The scheduler runs every goroutine that can take a step; nothing obliges
\* the other goroutine or an entry action to make a call.
FairnessEntry ==
    /\ WF_vars(\/ TransitionDispatch("c1")
               \/ TransitionSend("c1")
               \/ TransitionSetCurrent("c1")
               \/ InitializeCheck("c1")
               \/ InitializeLaunch("c1"))
    /\ WF_vars(\/ TransitionDispatch(EntryCaller)
               \/ TransitionSend(EntryCaller)
               \/ TransitionSetCurrent(EntryCaller)
               \/ EntryReturn
               \/ WorkerRecv(EntryWorker)
               \/ WorkerDo(EntryWorker))
    /\ \A t \in TrIds : WF_vars(GoDo(t))

FairSpecEntry ==
    InitEntry /\ [][NextEntry]_vars /\ FairnessEntry

----------------------------------------------------------------------------
\* What the claims speak of.

\* Caller c has called Transition; its frame holds the call until the next one.
InTransition(c) ==
    /\ c \in callers
    /\ pc[c] # "idle"
    /\ fr[c].op = "Transition"

\* The call of c has returned.
Returned(c) ==
    pc[c] = "ret"

\* The context state reference r held when c made its call.
PreCtxOf(c, r) ==
    IF r > 0 THEN fr[c].pre.ctx[r] ELSE fr[c].pre.starts[-r]

\* Since c made its call: CurrentState is the same, no state's context was
\* cancelled or replaced, no Transition record was built, nothing was put on
\* the channel and no goroutine was started.
NothingChanged(c) ==
    /\ CurrentState = fr[c].pre.cur
    /\ stctx = fr[c].pre.ctx
    /\ starts = fr[c].pre.starts
    /\ cancelled = fr[c].pre.cancelled
    /\ Len(trs) = fr[c].pre.ntrs
    /\ Len(sent) = fr[c].pre.nsent
    /\ DOMAIN gos = fr[c].pre.gos

InSource(b, name) ==
    \E i \in 1..Len(States[b].Source) : States[b].Source[i] = name

\* b is the first registered state of its name.
FirstOfName(b) ==
    \A k \in 1..(b - 1) : States[k].Destination # States[b].Destination

\* The current state was the registered state A, and the call asked for the
\* name of registered state b, which has another name, does not list A's name
\* and is marked neither FromAny nor FromStart.
C1_Case(c, b) ==
    /\ InTransition(c)
    /\ fr[c].pre.cur > 0
    /\ fr[c].to = States[b].Destination
    /\ States[b].Destination # Dest(fr[c].pre.cur)
    /\ ~InSource(b, Dest(fr[c].pre.cur))
    /\ ~States[b].fromAny
    /\ ~States[b].fromStart

C1_Rejected(c, b) ==
    /\ Returned(c)
    /\ fr[c].err = ErrInvalidStateChange(Dest(fr[c].pre.cur),
                                         States[b].Destination)
    /\ NothingChanged(c)

\* C1 as stated: for every registered current state A and every registered
\* state B of another name whose Source does not contain A's name and that is
\* neither FromAny nor FromStart, Transition(B) returns 'Invalid state change:
\* A > B' and changes nothing.
C1_AsStated ==
    \A c \in AllCallers : \A b \in 1..Len(States) :
        C1_Case(c, b) => C1_Rejected(c, b)

\* C1, amended: the same for every such B that is the first registered state of
\* its name (Find returns the first state of a name, so a later state of the
\* same name never decides a transition).
C1_InvalidChangeRejected ==
    \A c \in AllCallers : \A b \in 1..Len(States) :
        (C1_Case(c, b) /\ FirstOfName(b)) => C1_Rejected(c, b)

\* C1's case: a rejected change out of a state that holds a context.
C1_Witness ==
    \E b \in 1..Len(States) :
        /\ C1_Case("c1", b)
        /\ FirstOfName(b)
        /\ C1_Rejected("c1", b)
        /\ PreCtxOf("c1", fr["c1"].pre.cur) # 0

Registered(name) ==
    \E b \in 1..Len(States) : States[b].Destination = name

C2_Rejected(c) ==
    /\ Returned(c)
    /\ fr[c].err = ErrInvalidState(fr[c].to)
    /\ CurrentState = fr[c].pre.cur

\* C2 as stated: for every name no registered state has as its Destination, in
\* every reachable state, Transition(name) returns 'Invalid state: name' and
\* leaves CurrentState unchanged.
C2_AsStated ==
    \A c \in AllCallers :
        (InTransition(c) /\ ~Registered(fr[c].to)) => C2_Rejected(c)

\* C2, amended: the same for every such name but the empty name asked for while
\* CurrentState is the start state made by Start, whose Destination is the
\* empty string: that call is a self-transition and returns nil.
C2_UnknownStateRejected ==
    \A c \in AllCallers :
        ( /\ InTransition(c)
          /\ ~Registered(fr[c].to)
          /\ ~(IsStartRef(fr[c].pre.cur) /\ fr[c].to = "") )
        => C2_Rejected(c)

\* C2's case: an unknown name rejected after Start.
C2_Witness ==
    /\ InTransition("c1")
    /\ ~Registered(fr["c1"].to)
    /\ IsStartRef(fr["c1"].pre.cur)
    /\ fr["c1"].to # ""
    /\ C2_Rejected("c1")

\* C3: Transition(name) with name the current state's Destination returns nil
\* and is a no-op: CurrentState is the same state, its context is neither
\* cancelled nor replaced, no Transition record is built (so no entry action
\* and no before-hook runs for it) and nothing is put on the channel.
C3_SelfTransitionNoOp ==
    \A c \in AllCallers :
        ( /\ InTransition(c)
          /\ fr[c].pre.cur # Nil
          /\ fr[c].to = Dest(fr[c].pre.cur) )
        => /\ Returned(c)
           /\ fr[c].err = NoErr
           /\ NothingChanged(c)

\* C3's case: a self-transition asked of a state that holds a live context.
C3_Witness ==
    /\ InTransition("c1")
    /\ fr["c1"].pre.cur > 0
    /\ fr["c1"].to = Dest(fr["c1"].pre.cur)
    /\ Returned("c1")
    /\ CtxOf(CurrentState) # 0
    /\ ~Cancelled(CtxOf(CurrentState))

\* The Transition call of c passed validation for a state other than the
\* current one and has returned.
ValidatedAndReturned(c) ==
    /\ InTransition(c)
    /\ Returned(c)
    /\ fr[c].state # Nil

\* The call of c moved the machine: it returned nil with CurrentState another
\* state than before, the one asked for.
Moved(c) ==
    /\ ValidatedAndReturned(c)
    /\ fr[c].err = NoErr
    /\ CurrentState = fr[c].state
    /\ CurrentState # fr[c].pre.cur

\* Context x reported cancelled when the call of c returned. (With one caller
\* no cancel function is called between the return and the next call.)
CancelledAtReturn(c, x) ==
    x \in cancelled \/ fr[c].retroot = "cancelled"

\* The context of the state that was current before the call reports
\* cancelled (there was no such state before the first transition).
PreviousCancelled(c) ==
    fr[c].pre.cur # Nil =>
        /\ PreCtxOf(c, fr[c].pre.cur) # 0
        /\ CancelledAtReturn(c, PreCtxOf(c, fr[c].pre.cur))

\* C4 as stated: on a machine with a root context, after every Transition call
\* that moves to another state, parallel or not, the context of the previously
\* current state reports cancelled and that of the new one reports not
\* cancelled.
C4_AsStated ==
    \A c \in AllCallers :
        (rootctx # "nil" /\ Moved(c)) =>
            /\ PreviousCancelled(c)
            /\ CtxOf(CurrentState) # 0
            /\ ~CancelledAtReturn(c, CtxOf(CurrentState))

\* C4, amended: when the call returns, the context of the previously current
\* state reports cancelled, and that of the new state reports not cancelled
\* unless the machine's root context has itself been cancelled by then (a
\* context derived from a cancelled parent is cancelled from the start).
C4_ScopesAfterMove ==
    \A c \in AllCallers :
        (rootctx # "nil" /\ Moved(c)) =>
            /\ PreviousCancelled(c)
            /\ CtxOf(CurrentState) # 0
            /\ fr[c].retroot = "live" =>
                   ~CancelledAtReturn(c, CtxOf(CurrentState))

\* C4's case: a move out of a state into a parallel one, root context live.
C4_Witness ==
    /\ fr["c1"].retroot = "live"
    /\ Moved("c1")
    /\ fr["c1"].pre.cur > 0
    /\ IsParallel(CurrentState)
    /\ Cancelled(PreCtxOf("c1", fr["c1"].pre.cur))
    /\ ~Cancelled(CtxOf(CurrentState))

Dropped(c) ==
    /\ ValidatedAndReturned(c)
    /\ ~States[fr[c].state].parallel
    /\ \A i \in 1..Len(sent) : sent[i] # fr[c].tr

C7_WildcardSource ==
    \A c \in AllCallers : \A b \in 1..Len(States) :
        ( /\ InTransition(c)
          /\ fr[c].to = States[b].Destination
          /\ FirstOfName(b)
          /\ States[b].Source = <<"*">> )
        => fr[c].err = NoErr

\* The Transition record of c's call is the last leg of a round trip A, B, A:
\* record i entered A, record k left A for B, and c's call came back to A;
\* i is the last entry into A before k.
RoundTrip(c, i, k) ==
    /\ Moved(c)
    /\ i < k
    /\ k < fr[c].tr
    /\ trs[i].To = trs[fr[c].tr].To
    /\ trs[k].From = trs[i].To
    /\ trs[k].To = trs[fr[c].tr].From
    /\ \A m \in (i + 1)..(k - 1) : trs[m].To # trs[i].To

\* Every Transition record that entered the state of c's record before it was
\* given another context than c's record.
FreshScope(c) ==
    \A i \in 1..(fr[c].tr - 1) :
        trs[i].To = trs[fr[c].tr].To => trs[i].ctx # trs[fr[c].tr].ctx

\* C9 as stated: on a machine with a root context every entry into a state
\* makes a fresh context, distinct from all that state held before; after A,
\* B, A the context of the first entry into A is cancelled and is another
\* instance than that of the second entry, which is not cancelled.
C9_AsStated ==
    \A c \in AllCallers :
        (rootctx # "nil" /\ Moved(c)) =>
            /\ FreshScope(c)
            /\ \A i, k \in TrIds :
                   RoundTrip(c, i, k) =>
                       /\ trs[i].ctx # trs[fr[c].tr].ctx
                       /\ CancelledAtReturn(c, trs[i].ctx)
                       /\ ~CancelledAtReturn(c, trs[fr[c].tr].ctx)

\* C9, amended: the same, the context of the second entry into A being not
\* cancelled unless the machine's root context has been cancelled by the time
\* the call returns.
C9_FreshScopePerEntry ==
    \A c \in AllCallers :
        (rootctx # "nil" /\ Moved(c)) =>
            /\ FreshScope(c)
            /\ stctx[fr[c].state] = trs[fr[c].tr].ctx
            /\ \A i, k \in TrIds :
                   RoundTrip(c, i, k) =>
                       /\ trs[i].ctx # trs[fr[c].tr].ctx
                       /\ CancelledAtReturn(c, trs[i].ctx)
                       /\ fr[c].retroot = "live" =>
                              ~CancelledAtReturn(c, trs[fr[c].tr].ctx)

\* C9's case: a round trip A, B, A completed with the root context live.
C9_Witness ==
    \E i, k \in TrIds :
        /\ RoundTrip("c1", i, k)
        /\ fr["c1"].retroot = "live"
        /\ CancelledAtReturn("c1", trs[i].ctx)
        /\ ~CancelledAtReturn("c1", stctx[fr["c1"].state])

\* C10: after any number of Initialize and Start calls, under any interleaving
\* of concurrent callers, at most one worker loop is ever launched.
C10_AtMostOneWorker ==
    Len(workers) <= 1

\* Position p of the log is the call (kind "enter") or the return (kind
\* "exit") of the entry action run for Transition record t.
LogIs(p, kind, t) ==
    /\ log[p][1] = kind
    /\ log[p][2] = t

\* C5: with the worker started by Initialize and one caller asking for valid
\* sequential transitions one after another, the worker runs the entry actions
\* in the order the transitions were put on the channel: the entry action of
\* an earlier one has started and finished before that of a later one starts,
\* each is run at most once, and by the worker.
C5_EntryOrder ==
    /\ \A i, j \in 1..Len(sent) : \A q \in 1..Len(log) :
           ( /\ i < j
             /\ LogIs(q, "enter", sent[j])
             /\ States[trs[sent[i]].To].onEnterFunc )
           => \E p1, p2 \in 1..(q - 1) :
                  /\ p1 < p2
                  /\ LogIs(p1, "enter", sent[i])
                  /\ LogIs(p2, "exit", sent[i])
    /\ \A i \in 1..Len(sent) : \A p, q \in 1..Len(log) :
           (LogIs(p, "enter", sent[i]) /\ LogIs(q, "enter", sent[i]))
           => (p = q /\ log[p][3][1] = "worker")

\* C5's case: three sequential transitions, the entry action of each run to
\* its end.
C5_Witness ==
    /\ Len(sent) = 3
    /\ \A i \in 1..3 : \E p \in 1..Len(log) : LogIs(p, "exit", sent[i])

\* The entry action of Transition record t has been run, on the goroutine
\* started for it.
RunOnOwnGoroutine(t) ==
    \E p \in 1..Len(log) :
        /\ LogIs(p, "enter", t)
        /\ log[p][3] = <<"go", t>>

\* C8: a valid transition into a Parallel(true) state never waits on the
\* channel and puts nothing on it, the call returns, and the state's entry
\* action is eventually run, exactly once, on a goroutine of its own.
C8_ParallelEntry ==
    /\ [](\A c \in AllCallers :
            (InTransition(c) /\ fr[c].state # Nil /\ IsParallel(fr[c].state))
            => /\ pc[c] # "t_send"
               /\ \A i \in 1..Len(sent) : sent[i] # fr[c].tr
               /\ \A p, q \in 1..Len(log) :
                      (LogIs(p, "enter", fr[c].tr) /\ LogIs(q, "enter", fr[c].tr))
                      => (p = q /\ log[p][3] = <<"go", fr[c].tr>>))
    /\ \A c \in AllCallers :
           (InTransition(c) /\ fr[c].state # Nil /\ IsParallel(fr[c].state))
           ~> Returned(c)
    /\ \A t \in TrIds :
           (t \in DOMAIN gos /\ States[trs[t].To].onEnterFunc)
           ~> RunOnOwnGoroutine(t)

\* C11: on a machine that was never given a root context, after any sequence
\* of Transition calls the ctx and cancel of every registered state are still
\* unset: no context is ever attached to a state and none is ever cancelled.
C11_NoScopeWithoutRoot ==
    rootctx = "nil" =>
        /\ \A i \in 1..Len(States) : stctx[i] = 0
        /\ cancelled = {}
        /\ nctx = 0

\* C11's case: without root context, a second transition has moved the machine
\* out of a registered state.
C11_Witness ==
    /\ rootctx = "nil"
    /\ Moved("c1")
    /\ fr["c1"].pre.cur > 0
    /\ Len(trs) >= 2

\* Caller c has called Start; its frame holds the call until the next one.
InStart(c) ==
    /\ c \in callers
    /\ pc[c] # "idle"
    /\ fr[c].op = "Start"

\* Context x is held by no state, registered or start state, of c's snapshot.
FreshSince(c, x) ==
    /\ \A i \in 1..Len(States) : fr[c].pre.ctx[i] # x
    /\ \A i \in 1..Len(fr[c].pre.starts) : fr[c].pre.starts[i] # x

\* What the Start call of c has left when it has returned. Without hook: the
\* error, and CurrentState, the contexts and the channel as they were. With
\* hook: nil, a new start state as CurrentState holding a fresh context that
\* is not cancelled, the hook called with that state, no Transition record
\* built and nothing put on the channel.
StartOutcome(c) ==
    IF ~onStart
    THEN /\ fr[c].err = ErrMissingOnStart
         /\ CurrentState = fr[c].pre.cur
         /\ stctx = fr[c].pre.ctx
         /\ starts = fr[c].pre.starts
         /\ cancelled = fr[c].pre.cancelled
         /\ Len(sent) = fr[c].pre.nsent
    ELSE /\ fr[c].err = NoErr
         /\ IsStartRef(CurrentState)
         /\ -CurrentState > Len(fr[c].pre.starts)
         /\ CtxOf(CurrentState) # 0
         /\ FreshSince(c, CtxOf(CurrentState))
         /\ ~CancelledAtReturn(c, CtxOf(CurrentState))
         /\ \E p \in 1..Len(log) : log[p] = <<"onStart", CurrentState, c>>
         /\ Len(trs) = fr[c].pre.ntrs
         /\ Len(sent) = fr[c].pre.nsent

\* C12: Start() without OnStart hook returns the missing-hook error and leaves
\* CurrentState, every state's context and the channel unchanged; with a hook
\* it sets CurrentState to a new start state holding a fresh context that is
\* not cancelled and calls the hook with that state before it returns, using
\* neither the validator nor the channel. The call is not cut short by a
\* panic.
C12_StartContract ==
    \A c \in AllCallers :
        InStart(c) =>
            /\ ~crashed
            /\ Returned(c) => StartOutcome(c)

\* Caller c has called IsValidStateChange and the call has returned.
ValidatorReturned(c) ==
    /\ c \in callers
    /\ pc[c] = "ret"
    /\ fr[c].op = "IsValidStateChange"

\* The reference rules: registered state b may be entered from CurrentState.
RefAllowed(b) ==
    \/ States[b].fromAny
    \/ CurrentState = Nil
    \/ IsStartRef(CurrentState) /\ States[b].fromStart
    \/ InSource(b, Dest(CurrentState))

\* What the reference rules give for a name.
RefValidate(name) ==
    IF ~Registered(name)
    THEN [state |-> Nil, err |-> ErrInvalidState(name)]
    ELSE LET b == CHOOSE k \in 1..Len(States) :
                      States[k].Destination = name /\ FirstOfName(k)
         IN  [state |-> b,
              err |-> IF RefAllowed(b) THEN NoErr
                      ELSE ErrInvalidStateChange(Dest(CurrentState), name)]

Accepted(c) ==
    /\ InTransition(c)
    /\ fr[c].state # Nil

\* The record of c's call is or was on the channel.
OnQueue(c) ==
    \E i \in 1..Len(sent) : sent[i] = fr[c].tr

\* The entry action of c's target has been started for c's record, by the
\* worker or by a goroutine of its own, or that goroutine has been started.
EntryStarted(c) ==
    \/ fr[c].tr \in DOMAIN gos
    \/ \E p \in 1..Len(log) : LogIs(p, "enter", fr[c].tr)

\* C14: in every accepted transition away from a state that holds a context,
\* that context's cancel function has been called before the Transition
\* record is on the channel, before the entry action of the new state starts
\* (on the worker or on its own goroutine) and before CurrentState changes.
C14_CancelFirst ==
    \A c \in AllCallers :
        ( /\ Accepted(c)
          /\ fr[c].pre.cur # Nil
          /\ PreCtxOf(c, fr[c].pre.cur) # 0
          /\ \/ OnQueue(c)
             \/ EntryStarted(c)
             \/ CurrentState # fr[c].pre.cur )
        => PreCtxOf(c, fr[c].pre.cur) \in cancelled

\* C14's case: a transition out of the start state, root context live, whose
\* record the worker has taken from the channel and whose entry action has
\* started.
C14_Witness ==
    /\ Moved("c1")
    /\ IsStartRef(fr["c1"].pre.cur)
    /\ rootctx = "live"
    /\ OnQueue("c1")
    /\ \E p \in 1..Len(log) : LogIs(p, "enter", fr["c1"].tr)
    /\ PreCtxOf("c1", fr["c1"].pre.cur) \in cancelled

\* Position p of the log is a call made by a goroutine of the machine (the
\* worker or a goroutine of `go tr.do()`), the goroutine being g.
LogBy(p, g) ==
    /\ log[p][1] \in {"before", "enter", "exit"}
    /\ log[p][3] = g

\* The worker has taken record t from the channel and gone past the test of
\* the machine's context with it.
Executed(t) ==
    /\ \E i \in 1..Len(sent) : sent[i] = t
    /\ \A i \in 1..Len(transitions) : transitions[i] # t
    /\ \A w \in 1..Len(workers) :
           workers[w].t = t => workers[w].pc = "doing"

RunByWorker(t) ==
    \E p \in 1..Len(log) :
        /\ LogIs(p, "enter", t)
        /\ log[p][3][1] = "worker"

\* C16: on a machine without root context the worker launched by Initialize
\* runs forever: it never exits and never fails, and every sequential
\* transition accepted afterwards is eventually taken from the channel and
\* its entry action run.
C16_WorkerRunsForever ==
    /\ [](rootctx = "nil" =>
            /\ ~crashed
            /\ \A w \in 1..Len(workers) : workers[w].pc # "exited")
    /\ \A t \in TrIds :
           ( /\ rootctx = "nil"
             /\ Len(workers) > 0
             /\ \E i \in 1..Len(sent) : sent[i] = t
             /\ States[trs[t].To].onEnterFunc )
           ~> RunByWorker(t)

\* Caller c is inside a Transition call, on a machine with a root context
\* whose worker has been launched.
InFlight(c) ==
    /\ InTransition(c)
    /\ ~Returned(c)
    /\ rootctx # "nil"
    /\ Len(workers) > 0

\* C17: on a machine with a root context and a started worker, whose entry
\* actions and hooks return and never call Transition, every Transition call
\* eventually returns, also when the root context is cancelled while
\* sequential requests are in flight: a caller waiting to send on the full
\* channel is never left waiting forever once the worker has exited.
C17_TransitionReturns ==
    \A c \in AllCallers : InFlight(c) ~> Returned(c)

\* Since c made its call no state's context was cancelled and none was
\* replaced.
NoScopeChanged(c) ==
    /\ stctx = fr[c].pre.ctx
    /\ starts = fr[c].pre.starts
    /\ cancelled = fr[c].pre.cancelled

\* C18: every Transition call that returns with CurrentState
\* unchanged has changed no context either: none was cancelled and none was
\* replaced. This covers the error returns, the self-transition and the
\* sequential request made after the root context was cancelled.
C18_UnmovedCallChangesNoScope ==
    \A c \in AllCallers :
        (InTransition(c) /\ Returned(c) /\ CurrentState = fr[c].pre.cur)
        => NoScopeChanged(c)

\* What the code does for such a call: the error returns and the
\* self-transition change no context; the sequential request dropped at line
\* 271 returns with CurrentState unchanged after it has given its target a new
\* context (cancelled from the start) and called the cancel function of the
\* current state's context, when it has one.
C18_FrameOfUnmovedCall ==
    \A c \in AllCallers :
        (InTransition(c) /\ Returned(c) /\ CurrentState = fr[c].pre.cur) =>
            IF fr[c].state = Nil
            THEN NoScopeChanged(c)
            ELSE /\ Dropped(c)
                 /\ fr[c].retroot = "cancelled"
                 /\ stctx = [fr[c].pre.ctx EXCEPT
                                ![fr[c].state] = trs[fr[c].tr].ctx]
                 /\ FreshSince(c, trs[fr[c].tr].ctx)
                 /\ starts = fr[c].pre.starts
                 /\ cancelled = fr[c].pre.cancelled \cup
                        (IF fr[c].pre.cur # Nil
                         THEN {PreCtxOf(c, fr[c].pre.cur)} \ {0}
                         ELSE {})

\* A request refused by the validator in a state that holds a live context,
\* which it leaves alone.
C18_Refused ==
    /\ InTransition("c1")
    /\ Returned("c1")
    /\ fr["c1"].state = Nil
    /\ fr["c1"].err # NoErr
    /\ CurrentState > 0
    /\ CtxOf(CurrentState) # 0
    /\ ~Cancelled(CtxOf(CurrentState))

\* No call is in progress.
Quiescent ==
    \A c \in callers : pc[c] \in {"idle", "ret"}

\* The states, registered or start states, that hold a context which does not
\* report cancelled.
LiveRefs ==
    {r \in (1..Len(States)) \cup {-k : k \in 1..Len(starts)} :
        CtxOf(r) # 0 /\ ~Cancelled(CtxOf(r))}

\* C19: on a machine with a root context, with Transition and Start called one
\* at a time in any order, between the calls at most one state (registered or
\* start state) holds a context that is not cancelled, and that state is
\* CurrentState.
C19_OneLiveScope ==
    (rootctx # "nil" /\ Quiescent) => LiveRefs \subseteq {CurrentState}

\* Record t waits on the channel.
Enqueued(t) ==
    \E i \in 1..Len(transitions) : transitions[i] = t

\* C20: with a started worker and a root context that is never cancelled, the
\* machine never deadlocks when entry actions run by the worker call
\* Transition for a sequential state while another goroutine asks for
\* sequential transitions: the worker is never left waiting forever to send on
\* the channel it alone drains, and every record put on the channel is
\* eventually taken from it.
C20_NoSelfDeadlock ==
    /\ (Len(workers) > 0 /\ pc[EntryCaller] = "t_send")
           ~> (pc[EntryCaller] # "t_send")
    /\ \A t \in TrIds :
           (Len(workers) > 0 /\ Enqueued(t)) ~> ~Enqueued(t)

====
